---- MODULE Spec2Model ----
(***************************************************************************)
(* A model of rustwire: schema-less extraction and replacement of          *)
(* top-level fields of a Protocol-Buffers-encoded message.                 *)
(*                                                                         *)
(* Representation.                                                         *)
(*   - a byte (u8) is an integer in 0..255; a buffer (&[u8], Vec<u8>) is a  *)
(*     sequence of bytes; the Rust offset k (0-based) is the TLA+ index     *)
(*     k + 1.                                                              *)
(*   - a u64 is a sequence of 64 bits, least significant bit first, so     *)
(*     that shifts, masks and ors keep their 64-bit width (TLC's own        *)
(*     integers are 32 bits wide).                                         *)
(*   - a usize offset is an integer; usize is taken to be 64 bits wide and *)
(*     an addition that leaves the 64-bit range either aborts (overflow    *)
(*     checks on, the debug profile) or wraps (overflow checks off, the    *)
(*     release profile): the variable overflow_checks is the build.        *)
(*   - Option<T>: a record with kind "Some" or "None"; a call that aborts  *)
(*     (panic) has kind "Panic", a loop that never ends has kind "Hang",   *)
(*     a loop that goes round while its Vec grows, until the allocation    *)
(*     fails and the process aborts, has kind "Abort".                     *)
(***************************************************************************)
EXTENDS Integers, Sequences, FiniteSets

VARIABLES
    buffer,           \* the caller's encoded_message (Vec<u8>)
    call,             \* the call made: operation, arguments, buffer before, result
    overflow_checks   \* the build: TRUE = arithmetic overflow panics, FALSE = it wraps

vars == <<buffer, call, overflow_checks>>

----------------------------------------------------------------------------
(* u64 arithmetic, as bit vectors *)

\* width of u64
U64Bits == 64

\* the largest integer the model converts a u64 to (2^30): offsets and
\* lengths of every buffer of the model are far below it
IntLimit == 2^30

Bit(n, i) == (n \div (2^i)) % 2

\* n as u64, for 0 <= n < 2^30
U64Of(n) == [i \in 1..U64Bits |-> IF i <= 30 THEN Bit(n, i - 1) ELSE 0]

U64Zero == [i \in 1..U64Bits |-> 0]

U64Max == [i \in 1..U64Bits |-> 1]

\* 2^k as u64, 0 <= k < 64
U64Pow2(k) == [i \in 1..U64Bits |-> IF i = k + 1 THEN 1 ELSE 0]

\* v >> k
Shr(v, k) == [i \in 1..U64Bits |-> IF i + k <= U64Bits THEN v[i + k] ELSE 0]

\* v << k (bits shifted past bit 63 are lost)
Shl(v, k) == [i \in 1..U64Bits |-> IF i - k >= 1 THEN v[i - k] ELSE 0]

\* a | b
BitOr(a, b) == [i \in 1..U64Bits |-> IF a[i] = 1 \/ b[i] = 1 THEN 1 ELSE 0]

RECURSIVE LowBits(_, _)
\* (v & (2^k - 1)) as an integer, k <= 30
LowBits(v, k) == IF k = 0 THEN 0 ELSE LowBits(v, k - 1) + v[k] * (2^(k - 1))

\* v < 2^k
Below(v, k) == \A i \in (k + 1)..U64Bits : v[i] = 0

\* v as an integer, when v < 2^30
ToInt(v) == LowBits(v, 30)

\* two's complement: 2^64 - v (mod 2^64)
RECURSIVE NegFrom(_, _, _)
NegFrom(v, i, carry) ==
    IF i > U64Bits THEN <<>>
    ELSE LET s == (1 - v[i]) + carry
         IN  <<s % 2>> \o NegFrom(v, i + 1, s \div 2)

Neg(v) == NegFrom(v, 1, 1)

\* usize addition offset + n, offset an integer below 2^30 and n a u64
\* (lib.rs `offset + length as usize`).  Outcomes:
\*   "ok"    the sum as an integer below 2^31
\*   "far"   the sum is at least 2^30 and below 2^64: beyond every buffer
\*   "wrap"  the sum leaves 64 bits; val is the wrapped sum
AddUsize(offset, n) ==
    IF Below(n, 30) THEN [kind |-> "ok", val |-> offset + ToInt(n)]
    ELSE IF Below(Neg(n), 30) /\ ToInt(Neg(n)) <= offset
         THEN [kind |-> "wrap", val |-> offset - ToInt(Neg(n))]
         ELSE [kind |-> "far", val |-> IntLimit]

----------------------------------------------------------------------------
(* Option values *)

None == [kind |-> "None"]

Panic == [kind |-> "Panic"]

Hang == [kind |-> "Hang"]

Abort == [kind |-> "Abort"]

Some(v) == [kind |-> "Some", val |-> v]

IsSome(r) == r.kind = "Some"

\* the Rust slice &m[a..b] (0-based, b exclusive), for 0 <= a <= b <= Len(m)
Slice(m, a, b) == SubSeq(m, a + 1, b)

----------------------------------------------------------------------------
(* decoders.rs *)

\* the largest shift decode_varint accepts is below this
ShiftLimit == 64

RECURSIVE decode_varint_loop(_, _, _, _)
\* the for loop of decode_varint at 0-based index i
decode_varint_loop(bytes, i, result, shift) ==
    IF i >= Len(bytes) THEN None
    ELSE LET byte == bytes[i + 1]
             r    == BitOr(result, Shl(U64Of(byte % 128), shift))
         IN  IF byte < 128
             THEN [kind |-> "Some", val |-> r, next |-> i + 1]
             ELSE IF shift + 7 >= ShiftLimit
                  THEN None
                  ELSE decode_varint_loop(bytes, i + 1, r, shift + 7)

RECURSIVE decode_varint_loop_63(_, _, _, _)
\* decode_varint with the shift limit one bit short: a tenth byte is refused
decode_varint_loop_63(bytes, i, result, shift) ==
    IF i >= Len(bytes) THEN None
    ELSE LET byte == bytes[i + 1]
             r    == BitOr(result, Shl(U64Of(byte % 128), shift))
         IN  IF shift >= ShiftLimit - 1
             THEN None
             ELSE IF byte < 128
                  THEN [kind |-> "Some", val |-> r, next |-> i + 1]
                  ELSE decode_varint_loop_63(bytes, i + 1, r, shift + 7)

decode_varint_shift63(bytes, offset) == decode_varint_loop_63(bytes, offset, U64Zero, 0)

\* decode_varint enumerating without the skip: it always reads from index 0
decode_varint_no_skip(bytes, offset) == decode_varint_loop(bytes, 0, U64Zero, 0)

decode_varint(bytes, offset) == decode_varint_loop(bytes, offset, U64Zero, 0)

decode_float(encoded_message, offset) ==
    IF offset + 4 <= Len(encoded_message) THEN Some(offset + 4) ELSE None

\* decode_double asking for a byte after the value: offset + 8 < len
decode_double_needs_more(encoded_message, offset) ==
    IF offset + 8 < Len(encoded_message) THEN Some(offset + 8) ELSE None

decode_double(encoded_message, offset) ==
    IF offset + 8 <= Len(encoded_message) THEN Some(offset + 8) ELSE None

----------------------------------------------------------------------------
(* encoders.rs *)

RECURSIVE encode_varint_late_shift(_)
\* encode_varint testing the value before the shift: a trailing zero byte
encode_varint_late_shift(value) ==
    LET byte == LowBits(value, 7)
        rest == Shr(value, 7)
    IN  IF value # U64Zero
        THEN <<byte + 128>> \o encode_varint_late_shift(rest)
        ELSE <<byte>>

RECURSIVE encode_varint(_)
encode_varint(value) ==
    LET byte == LowBits(value, 7)
        rest == Shr(value, 7)
    IN  IF rest # U64Zero
        THEN <<byte + 128>> \o encode_varint(rest)
        ELSE <<byte>>

----------------------------------------------------------------------------
(* lib.rs: private helpers *)

handle_varint(encoded_message, offset) ==
    LET d == decode_varint(encoded_message, offset)
    IN  IF IsSome(d) THEN Some(d.next) ELSE None

\* handle_length_delimited taking the length prefix to be one byte
handle_length_delimited_one_byte(encoded_message, offset) ==
    IF offset >= Len(encoded_message) THEN None
    ELSE LET n == encoded_message[offset + 1]
         IN  IF offset + 1 + n > Len(encoded_message) THEN None
             ELSE Some(Slice(encoded_message, offset + 1, offset + 1 + n))

\* Some(value bytes), None, or Panic: `offset + length as usize` aborts under
\* overflow checks when it leaves the word; without them the wrapped end is
\* below the start and the slice &m[offset..end_offset] aborts
handle_length_delimited(encoded_message, offset) ==
    LET d == decode_varint(encoded_message, offset)
    IN  IF ~IsSome(d) THEN None
        ELSE LET e == AddUsize(d.next, d.val)
             IN  IF e.kind = "wrap" /\ overflow_checks THEN Panic
                 ELSE IF e.val > Len(encoded_message) THEN None
                 ELSE IF d.next > e.val THEN Panic
                 ELSE Some(Slice(encoded_message, d.next, e.val))

\* skip_field taking the length prefix to be one byte
skip_field_one_byte(encoded_message, wire_type, offset) ==
    CASE wire_type = 0 -> handle_varint(encoded_message, offset)
      [] wire_type = 1 -> Some(offset + 8)
      [] wire_type = 2 ->
            LET d == decode_varint(encoded_message, offset)
            IN  IF ~IsSome(d) THEN None
                ELSE LET e == AddUsize(offset + 1, d.val)
                     IN  IF e.kind = "wrap" /\ overflow_checks THEN Panic
                         ELSE Some(e.val)
      [] wire_type = 5 -> Some(offset + 4)
      [] OTHER -> None

\* skip_field with the widths of wire types 1 and 5 exchanged
skip_field_swapped(encoded_message, wire_type, offset) ==
    CASE wire_type = 0 -> handle_varint(encoded_message, offset)
      [] wire_type = 1 -> Some(offset + 4)
      [] wire_type = 2 ->
            LET d == decode_varint(encoded_message, offset)
            IN  IF ~IsSome(d) THEN None
                ELSE LET e == AddUsize(d.next, d.val)
                     IN  IF e.kind = "wrap" /\ overflow_checks THEN Panic
                         ELSE Some(e.val)
      [] wire_type = 5 -> Some(offset + 8)
      [] OTHER -> None

\* wire_type is tag & 0x07 as an integer 0..7
skip_field(encoded_message, wire_type, offset) ==
    CASE wire_type = 0 -> handle_varint(encoded_message, offset)
      [] wire_type = 1 -> Some(offset + 8)
      [] wire_type = 2 ->
            LET d == decode_varint(encoded_message, offset)
            IN  IF ~IsSome(d) THEN None
                ELSE LET e == AddUsize(d.next, d.val)
                     IN  IF e.kind = "wrap" /\ overflow_checks THEN Panic
                         ELSE Some(e.val)
      [] wire_type = 5 -> Some(offset + 4)
      [] OTHER -> None

----------------------------------------------------------------------------
(* lib.rs: extract_field_by_tag *)

\* the match on wire_type of a frame whose number is the target; offset is
\* the offset after the tag
extract_match(encoded_message, wire_type, offset) ==
    CASE wire_type = 0 ->
            LET d == decode_varint(encoded_message, offset)
            IN  IF IsSome(d) THEN Some(Slice(encoded_message, offset, d.next)) ELSE None
      [] wire_type = 1 ->
            LET d == decode_double(encoded_message, offset)
            IN  IF IsSome(d) THEN Some(Slice(encoded_message, offset, d.val)) ELSE None
      [] wire_type = 2 -> handle_length_delimited(encoded_message, offset)
      [] wire_type = 5 ->
            LET d == decode_float(encoded_message, offset)
            IN  IF IsSome(d) THEN Some(Slice(encoded_message, offset, d.val)) ELSE None
      [] OTHER -> None

RECURSIVE extract_loop(_, _, _, _)
\* the while loop at the head of an iteration; seen holds the offsets earlier
\* iterations started at (the loop's whole state is its offset, so an offset
\* met twice is a loop that never ends)
extract_loop(encoded_message, tag_number, offset, seen) ==
    IF ~(offset < Len(encoded_message)) THEN None
    ELSE IF offset \in seen THEN Hang
    ELSE LET d == decode_varint(encoded_message, offset)
         IN  IF ~IsSome(d) THEN None
             ELSE LET field_number == Shr(d.val, 3)
                      wire_type    == LowBits(d.val, 3)
                  IN  IF field_number = tag_number
                      THEN extract_match(encoded_message, wire_type, d.next)
                      ELSE LET s == skip_field(encoded_message, wire_type, d.next)
                           IN  IF ~IsSome(s) THEN s
                               ELSE extract_loop(encoded_message, tag_number, s.val,
                                                 seen \cup {offset})

\* tag_number is a u64
extract_field_by_tag(encoded_message, tag_number) ==
    extract_loop(encoded_message, tag_number, 0, {})

RECURSIVE extract_heads(_, _, _, _)
\* the values of `offset` at which extract_field_by_tag tests its while
\* condition, from offset on
extract_heads(encoded_message, tag_number, offset, seen) ==
    IF ~(offset < Len(encoded_message)) \/ offset \in seen THEN {offset}
    ELSE LET d == decode_varint(encoded_message, offset)
         IN  IF ~IsSome(d) THEN {offset}
             ELSE IF Shr(d.val, 3) = tag_number THEN {offset}
             ELSE LET s == skip_field(encoded_message, LowBits(d.val, 3), d.next)
                  IN  IF ~IsSome(s) THEN {offset}
                      ELSE {offset} \cup extract_heads(encoded_message, tag_number, s.val,
                                                       seen \cup {offset})

----------------------------------------------------------------------------
(* lib.rs: extract_multiple_fields_by_tag *)

Contains(tag_numbers, field_number) ==
    \E i \in DOMAIN tag_numbers : tag_numbers[i] = field_number

\* the match on wire_type of a frame whose number is in tag_numbers: the
\* value (or None, or Panic) and the offset the loop goes on from
multiple_match(encoded_message, wire_type, offset) ==
    CASE wire_type = 0 ->
            LET d == handle_varint(encoded_message, offset)
            IN  IF IsSome(d)
                THEN [value |-> Some(Slice(encoded_message, offset, d.val)), offset |-> d.val]
                ELSE [value |-> None, offset |-> offset]
      [] wire_type = 1 ->
            LET d == decode_double(encoded_message, offset)
            IN  IF IsSome(d)
                THEN [value |-> Some(Slice(encoded_message, offset, d.val)), offset |-> d.val]
                ELSE [value |-> None, offset |-> offset]
      [] wire_type = 2 ->
            LET v == handle_length_delimited(encoded_message, offset)
            IN  IF IsSome(v)
                THEN [value |-> v, offset |-> offset + Len(v.val) + 1]
                ELSE [value |-> v, offset |-> offset]
      [] wire_type = 5 ->
            LET d == decode_float(encoded_message, offset)
            IN  IF IsSome(d)
                THEN [value |-> Some(Slice(encoded_message, offset, d.val)), offset |-> d.val]
                ELSE [value |-> None, offset |-> offset]
      [] OTHER -> [value |-> None, offset |-> offset]

\* a returned Vec
Ret(fields) == [kind |-> "Ret", val |-> fields]

RECURSIVE multiple_loop(_, _, _, _, _)
\* the while loop at the head of an iteration; the loop's state is its offset
\* and `fields`, and seen holds the <<offset, len of fields>> earlier
\* iterations started at.  An offset met again with as many fields is a loop
\* that never ends; met again with more fields, every round pushes onto
\* `fields` until its allocation fails and the process aborts
multiple_loop(encoded_message, tag_numbers, offset, fields, seen) ==
    IF ~(offset < Len(encoded_message)) THEN Ret(fields)
    ELSE IF \E s \in seen : s[1] = offset
         THEN IF <<offset, Len(fields)>> \in seen THEN Hang ELSE Abort
    ELSE LET d == decode_varint(encoded_message, offset)
         IN  IF ~IsSome(d) THEN Ret(fields)
             ELSE LET field_number == Shr(d.val, 3)
                      wire_type    == LowBits(d.val, 3)
                  IN  IF Contains(tag_numbers, field_number)
                      THEN LET m == multiple_match(encoded_message, wire_type, d.next)
                           IN  IF m.value.kind = "Panic" THEN Panic
                               ELSE multiple_loop(encoded_message, tag_numbers, m.offset,
                                        IF IsSome(m.value)
                                        THEN Append(fields, <<field_number, m.value.val>>)
                                        ELSE fields,
                                        seen \cup {<<offset, Len(fields)>>})
                      ELSE LET s == skip_field(encoded_message, wire_type, d.next)
                           IN  IF s.kind = "Panic" THEN Panic
                               ELSE IF ~IsSome(s) THEN Ret(fields)
                               ELSE multiple_loop(encoded_message, tag_numbers, s.val,
                                                  fields,
                                                  seen \cup {<<offset, Len(fields)>>})

\* tag_numbers is a sequence of u64
extract_multiple_fields_by_tag(encoded_message, tag_numbers) ==
    multiple_loop(encoded_message, tag_numbers, 0, <<>>, {})

RECURSIVE multiple_heads(_, _, _, _)
\* the values of `offset` at which extract_multiple_fields_by_tag tests its
\* while condition, from offset on
multiple_heads(encoded_message, tag_numbers, offset, seen) ==
    IF ~(offset < Len(encoded_message)) \/ offset \in seen THEN {offset}
    ELSE LET d == decode_varint(encoded_message, offset)
         IN  IF ~IsSome(d) THEN {offset}
             ELSE IF Contains(tag_numbers, Shr(d.val, 3))
                  THEN LET m == multiple_match(encoded_message, LowBits(d.val, 3), d.next)
                       IN  IF m.value.kind = "Panic" THEN {offset}
                           ELSE {offset} \cup multiple_heads(encoded_message, tag_numbers,
                                                             m.offset, seen \cup {offset})
                  ELSE LET s == skip_field(encoded_message, LowBits(d.val, 3), d.next)
                       IN  IF ~IsSome(s) THEN {offset}
                           ELSE {offset} \cup multiple_heads(encoded_message, tag_numbers,
                                                             s.val, seen \cup {offset})

----------------------------------------------------------------------------
(* lib.rs: replace_field_with *)

\* replace_match reading a 64-bit value with the 32-bit reader
replace_match_float(encoded_message, wire_type, offset) ==
    CASE wire_type = 0 ->
            LET d == decode_varint(encoded_message, offset)
            IN  IF IsSome(d)
                THEN [old |-> Some(Slice(encoded_message, offset, d.next)), offset |-> d.next]
                ELSE [old |-> None, offset |-> offset]
      [] wire_type = 2 ->
            LET v == handle_length_delimited(encoded_message, offset)
            IN  IF IsSome(v)
                THEN [old |-> v, offset |-> offset + Len(v.val) + 1]
                ELSE [old |-> v, offset |-> offset]
      [] wire_type \in {1, 5} ->
            LET d == decode_float(encoded_message, offset)
            IN  IF IsSome(d)
                THEN [old |-> Some(Slice(encoded_message, offset, d.val)), offset |-> d.val]
                ELSE [old |-> None, offset |-> offset]
      [] OTHER -> [old |-> None, offset |-> offset]

\* the match on wire_type of the frame whose number is the target: the old
\* value and the offset the post slice starts at
replace_match(encoded_message, wire_type, offset) ==
    CASE wire_type = 0 ->
            LET d == decode_varint(encoded_message, offset)
            IN  IF IsSome(d)
                THEN [old |-> Some(Slice(encoded_message, offset, d.next)), offset |-> d.next]
                ELSE [old |-> None, offset |-> offset]
      [] wire_type = 1 ->
            LET d == decode_double(encoded_message, offset)
            IN  IF IsSome(d)
                THEN [old |-> Some(Slice(encoded_message, offset, d.val)), offset |-> d.val]
                ELSE [old |-> None, offset |-> offset]
      [] wire_type = 2 ->
            LET v == handle_length_delimited(encoded_message, offset)
            IN  IF IsSome(v)
                THEN [old |-> v, offset |-> offset + Len(v.val) + 1]
                ELSE [old |-> v, offset |-> offset]
      [] wire_type = 5 ->
            LET d == decode_float(encoded_message, offset)
            IN  IF IsSome(d)
                THEN [old |-> Some(Slice(encoded_message, offset, d.val)), offset |-> d.val]
                ELSE [old |-> None, offset |-> offset]
      [] OTHER -> [old |-> None, offset |-> offset]

\* the rewrite of the buffer: pre_slice ++ replace_with ++ post_slice
splice(encoded_message, old_offset, offset, replace_with) ==
    Slice(encoded_message, 0, old_offset) \o replace_with
        \o Slice(encoded_message, offset, Len(encoded_message))

RECURSIVE replace_loop(_, _, _, _, _)
\* the returned value (ret) and the buffer the call leaves (buf)
replace_loop(encoded_message, tag_number, replace_with, offset, seen) ==
    IF ~(offset < Len(encoded_message)) THEN [ret |-> None, buf |-> encoded_message]
    ELSE IF offset \in seen THEN [ret |-> Hang, buf |-> encoded_message]
    ELSE LET old_offset == offset
             d == decode_varint(encoded_message, offset)
         IN  IF ~IsSome(d) THEN [ret |-> None, buf |-> encoded_message]
             ELSE LET field_number == Shr(d.val, 3)
                      wire_type    == LowBits(d.val, 3)
                  IN  IF field_number = tag_number
                      THEN LET m == replace_match(encoded_message, wire_type, d.next)
                           IN  IF m.old.kind = "Panic" \/ m.offset > Len(encoded_message)
                               THEN [ret |-> Panic, buf |-> encoded_message]
                               ELSE [ret |-> m.old,
                                     buf |-> splice(encoded_message, old_offset,
                                                    m.offset, replace_with)]
                      ELSE LET s == skip_field(encoded_message, wire_type, d.next)
                           IN  IF ~IsSome(s) THEN [ret |-> s, buf |-> encoded_message]
                               ELSE replace_loop(encoded_message, tag_number, replace_with,
                                                 s.val, seen \cup {offset})

replace_field_with(encoded_message, tag_number, replace_with) ==
    replace_loop(encoded_message, tag_number, replace_with, 0, {})

RECURSIVE replace_heads(_, _, _, _)
\* the values of `offset` at which replace_field_with tests its while
\* condition, from offset on
replace_heads(encoded_message, tag_number, offset, seen) ==
    IF ~(offset < Len(encoded_message)) \/ offset \in seen THEN {offset}
    ELSE LET d == decode_varint(encoded_message, offset)
         IN  IF ~IsSome(d) THEN {offset}
             ELSE IF Shr(d.val, 3) = tag_number THEN {offset}
             ELSE LET s == skip_field(encoded_message, LowBits(d.val, 3), d.next)
                  IN  IF ~IsSome(s) THEN {offset}
                      ELSE {offset} \cup replace_heads(encoded_message, tag_number, s.val,
                                                       seen \cup {offset})

\* the value of `offset` after the match arm of replace_field_with on the frame
\* whose tag starts at old_offset: where the post slice starts
replace_post_offset(encoded_message, old_offset) ==
    LET d == decode_varint(encoded_message, old_offset)
    IN  replace_match(encoded_message, LowBits(d.val, 3), d.next).offset

----------------------------------------------------------------------------
(* lib.rs: create_header *)

RECURSIVE header_varint_through_128(_)
\* the loop ending on `current <= 128`: 128 is pushed as one byte
header_varint_through_128(current) ==
    IF Below(current, 7) \/ current = U64Of(128)
    THEN <<ToInt(current) % 256>>
    ELSE <<LowBits(current, 7) + 128>> \o header_varint_through_128(Shr(current, 7))

RECURSIVE header_varint(_)
\* the two `loop`s of create_header
header_varint(current) ==
    IF Below(current, 7)
    THEN <<LowBits(current, 7)>>
    ELSE <<LowBits(current, 7) + 128>> \o header_varint(Shr(current, 7))

\* create_header writing the length whatever the variant
create_header_always_length(tag_number, variant, encoded_message) ==
    LET tag_byte == BitOr(Shl(tag_number, 3), variant)
    IN  header_varint(tag_byte) \o header_varint(U64Of(Len(encoded_message)))

\* tag_number and variant are u64
create_header(tag_number, variant, encoded_message) ==
    LET tag_byte == BitOr(Shl(tag_number, 3), variant)
    IN  header_varint(tag_byte)
        \o (IF variant = U64Of(2)
            THEN header_varint(U64Of(Len(encoded_message)))
            ELSE <<>>)

----------------------------------------------------------------------------
(* The messages and arguments the calls are made on *)

\* frames per message
MaxFrames == 2

\* length of the long length-delimited value (a two-byte length varint)
LongLen == 128

\* small varint inputs 0..MaxSmall
MaxSmall == 300

\* one frame as a caller builds it: create_header(f, w, v) ++ v
Frame(f, w, v) == create_header(U64Of(f), U64Of(w), v) \o v

\* a string of n bytes: "aaa..."
Fill(n) == [i \in 1..n |-> 97]

Me == <<77, 101>>

\* the frames messages are made of: every wire type under a field number
\* with a one-byte tag (1) and one with a two-byte tag (300)
Catalogue ==
    { Frame(1, 0, encode_varint(U64Of(42))),
      Frame(1, 2, Fill(LongLen)),
      Frame(1, 2, Me),
      Frame(1, 1, <<1, 2, 3, 4, 5, 6, 7, 8>>),
      Frame(1, 5, <<9, 10, 11, 12>>),
      Frame(300, 0, encode_varint(U64Of(150))),
      Frame(300, 0, encode_varint(U64Max)),
      Frame(300, 2, Fill(LongLen)),
      Frame(300, 2, <<>>),
      Frame(300, 1, <<16, 1, 16, 2, 24, 3, 24, 4>>),
      Frame(300, 5, <<24, 1, 24, 2>>) }

RECURSIVE Concat(_)
Concat(fs) == IF fs = <<>> THEN <<>> ELSE Head(fs) \o Concat(Tail(fs))

\* first and last frames of the three-frame messages
Ends == { Frame(1, 0, encode_varint(U64Of(42))), Frame(300, 2, Me) }

\* the well-formed messages: at most MaxFrames frames of the catalogue, and
\* every frame of the catalogue between two others
Messages ==
    { Concat(fs) : fs \in UNION { [1..n -> Catalogue] : n \in 0..MaxFrames } }
        \cup { p \o f \o q : p \in Ends, q \in Ends, f \in Catalogue }

\* field numbers asked for: 3 is in no well-formed message
Targets == {1, 300, 3}

TagLists == { <<1>>, <<300>>, <<3>>, <<1, 300>>, <<300, 1>> }

\* replacement bytes for target t: nothing, a varint frame, a short and a
\* long length-delimited frame and a 32-bit frame numbered t, and bytes that
\* are no frame
Replacements(t) ==
    { <<>>, Frame(t, 0, <<7>>), Frame(t, 2, Me), Frame(t, 2, Fill(LongLen)),
      Frame(t, 5, <<5, 6, 7, 8>>), <<72, 105>> }

NoCall == [op |-> "none", in |-> <<>>, tags |-> <<>>, repl |-> <<>>, result |-> None]

U64Seq(ts) == [i \in DOMAIN ts |-> U64Of(ts[i])]

----------------------------------------------------------------------------
(* The calls *)

Init ==
    /\ buffer \in Messages
    /\ call = NoCall
    /\ overflow_checks \in BOOLEAN

ExtractField(t) ==
    /\ call.op = "none"
    /\ call' = [op |-> "extract_field_by_tag", in |-> buffer, tags |-> <<t>>,
                repl |-> <<>>, result |-> extract_field_by_tag(buffer, U64Of(t))]
    /\ UNCHANGED <<buffer, overflow_checks>>

ExtractMultiple(ts) ==
    /\ call.op = "none"
    /\ call' = [op |-> "extract_multiple_fields_by_tag", in |-> buffer, tags |-> ts,
                repl |-> <<>>,
                result |-> extract_multiple_fields_by_tag(buffer, U64Seq(ts))]
    /\ UNCHANGED <<buffer, overflow_checks>>

ReplaceField(t, r) ==
    /\ call.op = "none"
    /\ LET out == replace_field_with(buffer, U64Of(t), r)
       IN  /\ call' = [op |-> "replace_field_with", in |-> buffer, tags |-> <<t>>,
                       repl |-> r, result |-> out.ret]
           /\ buffer' = out.buf
    /\ UNCHANGED overflow_checks

Next ==
    \/ \E t \in Targets : ExtractField(t)
    \/ \E ts \in TagLists : ExtractMultiple(ts)
    \/ \E t \in Targets : \E r \in Replacements(t) : ReplaceField(t, r)

Spec == Init /\ [][Next]_vars

----------------------------------------------------------------------------
(* The wire format, read independently of the code (integers, no bit        *)
(* vectors): what a frame is, where its value starts and ends.  The claims *)
(* below compare the code's results with this reading.                     *)

\* a value no tag or length of a buffer of the model reaches
RefBig == 2^28

Min(S) == CHOOSE x \in S : \A y \in S : x <= y

\* the offset after the varint that starts at off, or -1 when the buffer
\* ends first or ten bytes go by without a terminating byte
RefVarintEnd(buf, off) ==
    LET last == IF off + 10 < Len(buf) THEN off + 10 ELSE Len(buf)
        ends == { i \in off..(last - 1) : buf[i + 1] < 128 }
    IN  IF ends = {} THEN -1 ELSE Min(ends) + 1

RECURSIVE RefVarintVal(_, _, _)
\* the value of the varint in buf[off..end), saturating at RefBig
RefVarintVal(buf, off, end) ==
    IF off >= end THEN 0
    ELSE LET high == RefVarintVal(buf, off + 1, end)
         IN  IF high >= RefBig \div 128 THEN RefBig
             ELSE (buf[off + 1] % 128) + 128 * high

\* the frame that starts at off: its number, wire type, where the tag ends
\* (tend), where the value starts (vstart) and ends (vend); ok is FALSE when
\* the frame is malformed
RefFrameAt(buf, off) ==
    LET tend == RefVarintEnd(buf, off)
        bad  == [ok |-> FALSE, num |-> 0, wt |-> 0, start |-> off, tend |-> 0,
                 vstart |-> 0, vend |-> 0]
    IN  IF tend < 0 THEN bad
        ELSE LET tag == RefVarintVal(buf, off, tend)
                 num == tag \div 8
                 wt  == buf[off + 1] % 8
                 fr(vs, ve) == [ok |-> TRUE, num |-> num, wt |-> wt, start |-> off,
                                tend |-> tend, vstart |-> vs, vend |-> ve]
             IN  CASE wt = 0 ->
                        LET ve == RefVarintEnd(buf, tend)
                        IN  IF ve < 0 THEN bad ELSE fr(tend, ve)
                   [] wt = 1 -> IF tend + 8 > Len(buf) THEN bad ELSE fr(tend, tend + 8)
                   [] wt = 5 -> IF tend + 4 > Len(buf) THEN bad ELSE fr(tend, tend + 4)
                   [] wt = 2 ->
                        LET le == RefVarintEnd(buf, tend)
                        IN  IF le < 0 THEN bad
                            ELSE LET n == RefVarintVal(buf, tend, le)
                                 IN  IF le + n > Len(buf) THEN bad ELSE fr(le, le + n)
                   [] OTHER -> bad

RECURSIVE RefFramesFrom(_, _)
\* the frames from off to the end of the buffer; ok is FALSE when a
\* malformed frame is met
RefFramesFrom(buf, off) ==
    IF off >= Len(buf) THEN [ok |-> TRUE, frames |-> <<>>]
    ELSE LET f == RefFrameAt(buf, off)
         IN  IF ~f.ok THEN [ok |-> FALSE, frames |-> <<>>]
             ELSE LET rest == RefFramesFrom(buf, f.vend)
                  IN  [ok |-> rest.ok, frames |-> <<f>> \o rest.frames]

RefFrames(buf) == RefFramesFrom(buf, 0).frames

\* a concatenation of frames with wire types in {0,1,2,5}, numbers >= 1
WellFormed(buf) ==
    /\ RefFramesFrom(buf, 0).ok
    /\ \A i \in DOMAIN RefFrames(buf) : RefFrames(buf)[i].num >= 1

HasFrame(buf, t) == \E i \in DOMAIN RefFrames(buf) : RefFrames(buf)[i].num = t

\* index of the first frame numbered t
FirstIndex(buf, t) == Min({ i \in DOMAIN RefFrames(buf) : RefFrames(buf)[i].num = t })

FirstFrame(buf, t) == RefFrames(buf)[FirstIndex(buf, t)]

RefValue(buf, f) == Slice(buf, f.vstart, f.vend)

RECURSIVE RefPairsOf(_, _, _)
\* the (number, value) pairs of the frames fs whose number is in S, in order
RefPairsOf(buf, fs, S) ==
    IF fs = <<>> THEN <<>>
    ELSE (IF Head(fs).num \in S
          THEN << <<U64Of(Head(fs).num), RefValue(buf, Head(fs))>> >>
          ELSE <<>>) \o RefPairsOf(buf, Tail(fs), S)

RefPairs(buf, S) == RefPairsOf(buf, RefFrames(buf), S)

Range(q) == { q[i] : i \in DOMAIN q }

\* the call's (first) target
Target == call.tags[1]

----------------------------------------------------------------------------
(* Claims about extraction and replacement on well-formed messages *)

IsExtract == call.op = "extract_field_by_tag"

IsMultiple == call.op = "extract_multiple_fields_by_tag"

IsReplace == call.op = "replace_field_with"

\* C1: on a well-formed message that holds a frame numbered t,
\* replace_field_with leaves prefix ++ replacement ++ suffix, prefix the
\* bytes before the tag of the first frame numbered t and suffix the bytes
\* after the last byte of its value.
C1_ReplaceSplicesFrame ==
    (IsReplace /\ WellFormed(call.in) /\ HasFrame(call.in, Target)) =>
        LET f == FirstFrame(call.in, Target)
        IN  buffer = Slice(call.in, 0, f.start) \o call.repl
                        \o Slice(call.in, f.vend, Len(call.in))

\* C2: a successful replace_field_with of t by a frame numbered t changes
\* nothing else: every other number u extracts the same list before and
\* after, and the later frames numbered t follow the new one in their order.
C2_ReplaceChangesOneFrame ==
    (/\ IsReplace /\ WellFormed(call.in) /\ IsSome(call.result)
     /\ WellFormed(call.repl)
     /\ \A i \in DOMAIN RefFrames(call.repl) : RefFrames(call.repl)[i].num = Target) =>
        /\ \A u \in Targets \ {Target} :
              extract_multiple_fields_by_tag(buffer, <<U64Of(u)>>)
                  = extract_multiple_fields_by_tag(call.in, <<U64Of(u)>>)
        /\ extract_multiple_fields_by_tag(buffer, <<U64Of(Target)>>)
              = Ret(RefPairs(call.repl, {Target})
                      \o Tail(RefPairs(call.in, {Target})))

\* C3: replace_field_with returns what extract_field_by_tag returns for
\* the same target on the buffer as it was before the call, whatever the
\* replacement bytes.
C3_ReplaceReturnsExtracted ==
    IsReplace => call.result = extract_field_by_tag(call.in, U64Of(Target))

C3_Witness ==
    /\ IsReplace /\ IsSome(call.result)
    /\ Len(call.result.val) >= LongLen
    /\ call.repl # <<>>
    /\ buffer # call.in

\* a varint: every byte but the last has the high bit, the last has not
IsVarintBytes(v) ==
    /\ Len(v) >= 1
    /\ \A i \in 1..(Len(v) - 1) : v[i] >= 128
    /\ v[Len(v)] < 128

\* C4: on a well-formed message extract_field_by_tag returns the value
\* bytes of the first frame numbered t: the varint itself (wire type 0),
\* 8 bytes (1), 4 bytes (5), the L bytes after the length varint (2), also
\* for L >= 128; later frames numbered t are ignored.
C4_ExtractFirstValue ==
    (IsExtract /\ WellFormed(call.in) /\ HasFrame(call.in, Target)) =>
        LET f == FirstFrame(call.in, Target)
        IN  /\ call.result = Some(RefValue(call.in, f))
            /\ f.wt = 0 => IsVarintBytes(call.result.val)
            /\ f.wt = 1 => Len(call.result.val) = 8
            /\ f.wt = 5 => Len(call.result.val) = 4
            /\ f.wt = 2 => Len(call.result.val)
                              = RefVarintVal(call.in, f.tend, f.vstart)

C4_Witness ==
    /\ IsExtract /\ WellFormed(call.in) /\ IsSome(call.result)
    /\ Len(call.result.val) >= LongLen
    /\ Len(RefPairs(call.in, {Target})) >= 2
    /\ RefPairs(call.in, {Target})[2][2] # call.result.val

\* C5: on a well-formed message extract_multiple_fields_by_tag returns one
\* (number, value) pair for each frame whose number is asked for, in the
\* order of the frames, each with the frame's own number and value bytes.
C5_MultiplePairsInOrder ==
    (IsMultiple /\ WellFormed(call.in)) =>
        call.result = Ret(RefPairs(call.in, Range(call.tags)))

\* C6: the frames before the first frame numbered t are each skipped to
\* exactly their end, and the result for t does not depend on them: it is
\* the result on the message without them.
C6_SkipThenMatch ==
    (IsExtract /\ WellFormed(call.in) /\ HasFrame(call.in, Target)) =>
        LET k == FirstIndex(call.in, Target)
            fs == RefFrames(call.in)
        IN  /\ \A i \in 1..(k - 1) :
                  skip_field(call.in, fs[i].wt, fs[i].tend) = Some(fs[i].vend)
            /\ call.result
                  = extract_field_by_tag(Slice(call.in, fs[k].start, Len(call.in)),
                                         U64Of(Target))

C6_Witness ==
    /\ IsExtract /\ WellFormed(call.in) /\ HasFrame(call.in, Target)
    /\ FirstIndex(call.in, Target) >= 2
    /\ RefFrames(call.in)[1].wt = 2
    /\ RefFrames(call.in)[1].vend - RefFrames(call.in)[1].vstart >= LongLen
    /\ IsSome(call.result)

\* C9: on a well-formed message with no frame numbered t,
\* extract_field_by_tag returns None and extract_multiple_fields_by_tag
\* for [t] returns the empty list; on the empty buffer both return nothing
\* for every target.
C9_AbsentFieldNone ==
    /\ (IsExtract /\ WellFormed(call.in) /\ ~HasFrame(call.in, Target))
          => call.result = None
    /\ (IsMultiple /\ WellFormed(call.in) /\ Len(call.tags) = 1
            /\ ~HasFrame(call.in, Target))
          => call.result = Ret(<<>>)
    /\ (IsExtract /\ call.in = <<>>) => call.result = None
    /\ (IsMultiple /\ call.in = <<>>) => call.result = Ret(<<>>)

C9_Witness ==
    /\ IsExtract /\ WellFormed(call.in) /\ ~HasFrame(call.in, Target)
    /\ Len(RefFrames(call.in)) >= 2
    /\ \E i \in DOMAIN RefFrames(call.in) : RefFrames(call.in)[i].wt = 5
    /\ call.result = None

----------------------------------------------------------------------------
(* The varint codec on its own *)

\* 2^k - 1 as u64, 0 <= k <= 64
U64Ones(k) == [i \in 1..U64Bits |-> IF i <= k THEN 1 ELSE 0]

\* the values encoded: the small ones, the powers of two and their
\* predecessors up to u64::MAX, and values with the top bit set
VarintInputs ==
    { U64Of(n) : n \in 0..MaxSmall }
        \cup { U64Pow2(k) : k \in 0..(U64Bits - 1) }
        \cup { U64Ones(k) : k \in 0..U64Bits }
        \cup { BitOr(U64Pow2(U64Bits - 1), U64Of(n)) : n \in {1, 127, 128, 624485} }
        \cup { U64Of(624485), U64Of(2^30 - 1) }

InitVarint ==
    /\ buffer = <<>>
    /\ call \in { [op |-> "input", value |-> v] : v \in VarintInputs }
    /\ overflow_checks \in BOOLEAN

EncodeVarint ==
    /\ call.op = "input"
    /\ buffer' = encode_varint(call.value)
    /\ call' = [op |-> "encode_varint", value |-> call.value]
    /\ UNCHANGED overflow_checks

DecodeVarint ==
    /\ call.op = "encode_varint"
    /\ call' = [op |-> "decode_varint", value |-> call.value,
                result |-> decode_varint(buffer, 0)]
    /\ UNCHANGED <<buffer, overflow_checks>>

NextVarint == EncodeVarint \/ DecodeVarint

SpecVarint == InitVarint /\ [][NextVarint]_vars

\* C7: decode_varint(encode_varint(v), 0) = (v, len(encode_varint(v))) for
\* every v; the encoding of u64::MAX has 10 bytes and decodes to u64::MAX.
C7_VarintRoundTrip ==
    call.op = "decode_varint" =>
        /\ call.result = [kind |-> "Some", val |-> call.value, next |-> Len(buffer)]
        /\ call.value = U64Max =>
              buffer = <<255, 255, 255, 255, 255, 255, 255, 255, 255, 1>>

C7_Witness ==
    /\ call.op = "decode_varint"
    /\ call.value = U64Max
    /\ IsSome(call.result)
    /\ call.result.next = 10

\* C8: encode_varint(v) has 1 to 10 bytes, the high bit set on every byte
\* but the last, a non-zero last byte unless v = 0 (then the single byte 0),
\* and no shorter sequence holds v: v needs more than 7 * (len - 1) bits.
C8_VarintMinimal ==
    call.op = "encode_varint" =>
        /\ Len(buffer) \in 1..10
        /\ IsVarintBytes(buffer)
        /\ call.value = U64Zero => buffer = <<0>>
        /\ call.value # U64Zero => buffer[Len(buffer)] # 0
        /\ \A n \in 1..(Len(buffer) - 1) : ~Below(call.value, 7 * n)
        /\ Len(buffer) < 10 => Below(call.value, 7 * Len(buffer))

C8_Witness ==
    /\ call.op = "encode_varint"
    /\ Len(buffer) = 10
    /\ call.value # U64Max

----------------------------------------------------------------------------
(* Calls on arbitrary buffers: well-formed messages and corrupt ones *)

\* the tag varint of field f with wire type w
Tag(f, w) == header_varint(BitOr(Shl(U64Of(f), 3), U64Of(w)))

\* n continuation bytes
Cont(n) == [i \in 1..n |-> 255]

\* malformed frames with field number f
CorruptFrames(f) ==
    { <<136>>,                                       \* tag cut off
      Cont(10) \o <<1>>,                             \* tag of more than ten bytes
      Tag(f, 0),                                     \* varint value missing
      Tag(f, 0) \o <<150>>,                          \* varint value cut off
      Tag(f, 0) \o Cont(10) \o <<1>>,                \* varint value over-long
      Tag(f, 1) \o <<1, 2, 3>>,                      \* 64-bit value cut off
      Tag(f, 5) \o <<1, 2>>,                         \* 32-bit value cut off
      Tag(f, 2) \o <<128>>,                          \* length varint cut off
      Tag(f, 2) \o <<5>> \o Me,                      \* length beyond the buffer
      Tag(f, 2) \o encode_varint(U64Of(LongLen)) \o Me,
      Tag(f, 2) \o encode_varint(U64Max),            \* length 2^64 - 1
      Tag(f, 2) \o encode_varint(U64Max) \o Me,
      Tag(f, 2) \o encode_varint(Neg(U64Of(11))),    \* length 2^64 - 11
      Tag(f, 2) \o encode_varint(Neg(U64Of(12))),    \* length 2^64 - 12
      Tag(f, 2) \o encode_varint(Neg(U64Of(14))),    \* length 2^64 - 14
      Tag(f, 2) \o encode_varint(U64Pow2(U64Bits - 1)),
      Tag(f, 3),                                     \* group markers
      Tag(f, 4),
      Tag(f, 3) \o <<1>>,                            \* wire types 3, 4, 6, 7
      Tag(f, 4) \o <<1>>,
      Tag(f, 6) \o <<1>>,
      Tag(f, 7) \o <<1>> }

\* what goes before and after the malformed frame
Around ==
    { <<>>, Frame(1, 0, encode_varint(U64Of(42))), Frame(300, 2, Me),
      Frame(3, 5, <<9, 10, 11, 12>>) }

CorruptMessages ==
    { p \o c \o q : p \in Around, q \in Around,
                    c \in CorruptFrames(1) \cup CorruptFrames(300) }

InitAny ==
    /\ buffer \in Messages \cup CorruptMessages
    /\ call = NoCall
    /\ overflow_checks \in BOOLEAN

SpecAny == InitAny /\ [][Next]_vars

RECURSIVE RefScan(_, _, _)
\* reading the frames from off for the first one numbered t: "found",
\* "absent" (the buffer ends first) or "corrupt" (a malformed frame is met
\* first, or is the one numbered t)
RefScan(buf, t, off) ==
    IF off >= Len(buf) THEN "absent"
    ELSE LET f == RefFrameAt(buf, off)
         IN  IF ~f.ok THEN "corrupt"
             ELSE IF f.num = t THEN "found"
             ELSE RefScan(buf, t, f.vend)

\* C10: extract_field_by_tag returns None whenever a corrupt frame (a cut
\* off or over-long tag or value varint, a value that ends beyond the
\* buffer, a wire type 3, 4, 6 or 7) is met at or before the first frame
\* numbered t.
C10_CorruptFrameNone ==
    (IsExtract /\ RefScan(call.in, Target, 0) = "corrupt") => call.result = None

\* reading the frames of buf from its start meets a corrupt one
HasCorrupt(buf) == ~RefFramesFrom(buf, 0).ok

\* C11: when the buffer holds a corrupt frame, extract_multiple_fields_by_tag
\* returns exactly the pairs of the listed frames that precede the first
\* corrupt frame, in buffer order, whether the corrupt frame's number is
\* listed or not; no pair comes from bytes at or after the corrupt frame.
C11_MultipleStopsAtCorrupt ==
    (IsMultiple /\ HasCorrupt(call.in))
        => call.result = Ret(RefPairs(call.in, Range(call.tags)))

\* the field number in the tag that starts at off, -1 when the tag cannot
\* be read
RefTagNum(buf, off) ==
    LET tend == RefVarintEnd(buf, off)
    IN  IF tend < 0 THEN -1 ELSE RefVarintVal(buf, off, tend) \div 8

RECURSIVE RefMiss(_, _, _)
\* reading the frames from off, the end of the buffer or a corrupt frame
\* that is not numbered t comes before any frame numbered t
RefMiss(buf, t, off) ==
    IF off >= Len(buf) THEN TRUE
    ELSE LET f == RefFrameAt(buf, off)
         IN  IF f.ok THEN f.num # t /\ RefMiss(buf, t, f.vend)
             ELSE RefTagNum(buf, off) # t

\* C12: replace_field_with returns None when no frame numbered t is found
\* before the end of the buffer or before a corrupt frame with another
\* number, and the buffer is then unchanged byte for byte.
C12_ReplaceMissKeepsBuffer ==
    (IsReplace /\ RefMiss(call.in, Target, 0))
        => (call.result = None /\ buffer = call.in)

----------------------------------------------------------------------------
(* Claims about replacement followed by another call *)

\* r is one well-formed frame numbered t
IsOneFrame(r, t) ==
    /\ WellFormed(r)
    /\ Len(RefFrames(r)) = 1
    /\ RefFrames(r)[1].num = t

\* the bytes of frame f of buf, tag included
RefFrameBytes(buf, f) == Slice(buf, f.start, f.vend)

\* C13: on a well-formed message whose first frame numbered t is F, replacing
\* t by a well-formed frame numbered t and then replacing t again by the
\* bytes of F restores the original buffer byte for byte, for every wire
\* type and value length of the two frames.
C13_ReplaceRoundTrip ==
    (/\ IsReplace /\ WellFormed(call.in) /\ HasFrame(call.in, Target)
     /\ IsOneFrame(call.repl, Target)) =>
        LET F == RefFrameBytes(call.in, FirstFrame(call.in, Target))
        IN  replace_field_with(buffer, U64Of(Target), F).buf = call.in

\* the first pair of fields whose number is t, None when there is none
FirstPair(fields, t) ==
    LET at == { i \in DOMAIN fields : fields[i][1] = U64Of(t) }
    IN  IF at = {} THEN None ELSE Some(fields[Min(at)])

\* C14: after replace_field_with(buffer, t, F') succeeds on a well-formed
\* message, F' one well-formed frame numbered t with value v,
\* extract_field_by_tag(buffer, t) returns v, and in the result of
\* extract_multiple_fields_by_tag for a list that holds t the first pair
\* numbered t is (t, v).
C14_ReplaceThenExtract ==
    (/\ IsReplace /\ WellFormed(call.in) /\ IsSome(call.result)
     /\ IsOneFrame(call.repl, Target)) =>
        LET v == RefValue(call.repl, RefFrames(call.repl)[1])
        IN  /\ extract_field_by_tag(buffer, U64Of(Target)) = Some(v)
            /\ \A ts \in TagLists :
                  Target \in Range(ts) =>
                      LET out == extract_multiple_fields_by_tag(buffer, U64Seq(ts))
                      IN  /\ out.kind = "Ret"
                          /\ FirstPair(out.val, Target) = Some(<<U64Of(Target), v>>)

\* the frames of buf, each as its bytes
FrameBytesSeq(buf) ==
    [i \in DOMAIN RefFrames(buf) |-> RefFrameBytes(buf, RefFrames(buf)[i])]

\* C17: replace_field_with keeps a well-formed message well-formed: called
\* with well-formed replacement frames on a well-formed buffer, it leaves a
\* concatenation of the untouched original frames and the replacement
\* frames, with no stray bytes; so does any finite sequence of such calls.
C17_ReplaceKeepsWellFormed ==
    (IsReplace /\ WellFormed(call.in) /\ WellFormed(call.repl)) =>
        /\ WellFormed(buffer)
        /\ IF HasFrame(call.in, Target)
           THEN LET old == FrameBytesSeq(call.in)
                    i   == FirstIndex(call.in, Target)
                IN  FrameBytesSeq(buffer)
                      = SubSeq(old, 1, i - 1) \o FrameBytesSeq(call.repl)
                          \o SubSeq(old, i + 1, Len(old))
           ELSE buffer = call.in

----------------------------------------------------------------------------
(* The order of the pairs of extract_multiple_fields_by_tag *)

\* the first place of number n in the list ts
PlaceIn(ts, n) == Min({ i \in DOMAIN ts : U64Of(ts[i]) = n })

\* C20: the tuples returned by extract_multiple_fields_by_tag come in the
\* order of the numbers in tag_numbers, as its doc comment states: a pair
\* never follows a pair whose number is listed later.
C20_PairsInTagOrder ==
    (IsMultiple /\ call.result.kind = "Ret") =>
        \A i, j \in DOMAIN call.result.val :
            i < j => PlaceIn(call.tags, call.result.val[i][1])
                        <= PlaceIn(call.tags, call.result.val[j][1])

----------------------------------------------------------------------------
(* Claims about every buffer: aborts and termination *)

IsCall == call.op \in { "extract_field_by_tag", "extract_multiple_fields_by_tag",
                         "replace_field_with" }

\* C18: no input is fatal: on every buffer, tags and lengths up to 2^64 - 1
\* included, and every target, the three functions return (an absent or
\* partial result) and never abort, by a panic or otherwise: offset + length
\* does not overflow and no slice is taken with start > end or end > len.
C18_NoCallAborts ==
    IsCall => call.result.kind \notin {"Panic", "Abort"}

\* C19: every call of the three functions ends: the scan offset grows in
\* every iteration of the loop, also when offset + length wraps, so no
\* offset is met twice (a loop that meets one goes round for ever, or until
\* the memory for its growing result runs out).
C19_EveryCallEnds ==
    IsCall => call.result.kind \notin {"Hang", "Abort"}

----------------------------------------------------------------------------
(* create_header, and the field a caller builds with it *)

\* field numbers: small ones, those whose tag takes 1, 2 and 3 bytes, the
\* largest whose tag fits in 64 bits, and some whose tag does not fit
HeaderFields ==
    { U64Of(n) : n \in {0, 1, 2, 15, 16, 300, 2047, 2048} }
        \cup { U64Pow2(U64Bits - 4), U64Ones(U64Bits - 3), U64Pow2(U64Bits - 3),
               U64Max }

HeaderVariants == { U64Of(w) : w \in {0, 1, 2, 3, 5, 7} }

HeaderValues ==
    { <<>>, <<7>>, <<150, 1>>, encode_varint(U64Max), Me, Fill(LongLen),
      Fill(LongLen - 1), <<1, 2, 3, 4, 5, 6, 7, 8>>, <<9, 10, 11, 12>> }

InitHeader ==
    /\ buffer = <<>>
    /\ call \in { [op |-> "input", tag_number |-> f, variant |-> w,
                   encoded_message |-> v, result |-> <<>>] :
                      f \in HeaderFields, w \in HeaderVariants, v \in HeaderValues }
    /\ overflow_checks \in BOOLEAN

\* the header of a field, and the field: header ++ encoded_message
CreateHeader ==
    /\ call.op = "input"
    /\ LET header == create_header(call.tag_number, call.variant, call.encoded_message)
       IN  /\ call' = [call EXCEPT !.op = "create_header", !.result = header]
           /\ buffer' = header \o call.encoded_message
    /\ UNCHANGED overflow_checks

NextHeader == CreateHeader

SpecHeader == InitHeader /\ [][NextHeader]_vars

IsHeader == call.op = "create_header"

\* C15: create_header(f, w, v) is encode_varint((f << 3) | w), followed by
\* encode_varint(len(v)) if and only if w = 2; for any other w there are no
\* length bytes and v has no influence on the result.
C15_HeaderIsTagThenLength ==
    IsHeader =>
        LET f == call.tag_number
            w == call.variant
            v == call.encoded_message
        IN  /\ call.result
                  = encode_varint(BitOr(Shl(f, 3), w))
                      \o (IF w = U64Of(2) THEN encode_varint(U64Of(Len(v))) ELSE <<>>)
            /\ w # U64Of(2) =>
                  \A other \in HeaderValues : create_header(f, w, other) = call.result

C15_Witness ==
    /\ IsHeader
    /\ call.variant = U64Of(2)
    /\ Len(call.encoded_message) = LongLen
    /\ call.tag_number = U64Of(300)
    /\ Len(call.result) = 4

\* v is a value of wire type w: one varint of at most ten bytes (0), 8
\* bytes (1), 4 bytes (5), any bytes (2)
ValidFor(w, v) ==
    CASE w = U64Of(0) -> IsVarintBytes(v) /\ Len(v) <= 10 /\ (Len(v) = 10 => v[10] <= 1)
      [] w = U64Of(1) -> Len(v) = 8
      [] w = U64Of(5) -> Len(v) = 4
      [] w = U64Of(2) -> TRUE
      [] OTHER -> FALSE

\* the case of C16: f >= 1, the tag fits in 64 bits, v is valid for w
HeaderFits ==
    /\ IsHeader
    /\ call.tag_number # U64Zero
    /\ Below(call.tag_number, U64Bits - 3)
    /\ ValidFor(call.variant, call.encoded_message)

\* C16: for f >= 1 whose tag fits in 64 bits, w in {0, 1, 2, 5} and v valid
\* for w, create_header(f, w, v) ++ v is exactly one frame: its leading
\* varint decodes to a tag with tag >> 3 = f and tag & 7 = w, the frame ends
\* where the buffer ends, and extract_field_by_tag(buffer, f) returns v.
C16_HeaderRoundTrip ==
    HeaderFits =>
        LET d == decode_varint(buffer, 0)
        IN  /\ IsSome(d)
            /\ Shr(d.val, 3) = call.tag_number
            /\ U64Of(LowBits(d.val, 3)) = call.variant
            /\ d.next + Len(call.encoded_message) <= Len(buffer)
            /\ skip_field(buffer, LowBits(d.val, 3), d.next) = Some(Len(buffer))
            /\ RefFramesFrom(buffer, 0).ok
            /\ Len(RefFrames(buffer)) = 1
            /\ extract_field_by_tag(buffer, call.tag_number)
                  = Some(call.encoded_message)

C16_Witness ==
    /\ HeaderFits
    /\ call.tag_number = U64Ones(U64Bits - 3)
    /\ call.variant = U64Of(2)
    /\ Len(call.encoded_message) = LongLen
    /\ extract_field_by_tag(buffer, call.tag_number) = Some(call.encoded_message)

----------------------------------------------------------------------------
(* decode_varint and skip_field on their own, at every offset of a buffer *)

\* n continuation bytes with no payload
ZeroCont(n) == [i \in 1..n |-> 128]

\* the most continuation bytes in front of a buffer's end
MaxCont == 11

\* what follows the continuation bytes
PartEnds == { <<>>, <<0>>, <<1>>, <<2>>, <<127>>, <<1, 255>>, <<5, 8>> }

\* buffers of 0 to MaxCont continuation bytes and an end
PartBuffers ==
    { c \o e : c \in { Cont(k) : k \in 0..MaxCont } \cup { ZeroCont(k) : k \in 0..MaxCont },
               e \in PartEnds }

WireTypes == 0..7

InitParts ==
    /\ buffer \in PartBuffers
    /\ call = [op |-> "input", offset |-> 0, wire_type |-> 0, result |-> None]
    /\ overflow_checks \in BOOLEAN

\* the offsets of the calls: up to one beyond the end of the longest buffer
Offsets == 0..(MaxCont + 3)

\* offsets 0..len + 1: one beyond the end included
DecodeVarintAt(offset) ==
    /\ call.op = "input"
    /\ offset <= Len(buffer) + 1
    /\ call' = [op |-> "decode_varint", offset |-> offset, wire_type |-> 0,
                result |-> decode_varint(buffer, offset)]
    /\ UNCHANGED <<buffer, overflow_checks>>

SkipFieldAt(wire_type, offset) ==
    /\ call.op = "input"
    /\ offset <= Len(buffer)
    /\ call' = [op |-> "skip_field", offset |-> offset, wire_type |-> wire_type,
                result |-> skip_field(buffer, wire_type, offset)]
    /\ UNCHANGED <<buffer, overflow_checks>>

NextParts ==
    \/ \E offset \in Offsets : DecodeVarintAt(offset)
    \/ \E wire_type \in WireTypes : \E offset \in Offsets :
          SkipFieldAt(wire_type, offset)

SpecParts == InitParts /\ [][NextParts]_vars

IsDecode == call.op = "decode_varint"

\* the 1-based places of the bytes with a clear high bit among the ten
\* bytes from offset
Terminators(buf, offset) ==
    { i \in (offset + 1)..Min({offset + 10, Len(buf)}) : buf[i] < 128 }

\* C21: decode_varint(buffer, offset) is absent exactly when no byte with a
\* clear high bit occurs in buffer[offset .. min(offset + 10, len)); otherwise
\* next_offset is the index of the first such byte plus one, so
\* offset < next_offset <= min(offset + 10, len).
C21_VarintAbsentOrNext ==
    IsDecode =>
        LET terms == Terminators(buffer, call.offset)
        IN  /\ (call.result = None) <=> (terms = {})
            /\ terms # {} =>
                  /\ call.result.kind = "Some"
                  /\ call.result.next = Min(terms)
                  /\ call.offset < call.result.next
                  /\ call.result.next <= Min({call.offset + 10, Len(buffer)})

\* a varint of ten bytes read from an offset inside the buffer
C21_Witness ==
    /\ IsDecode
    /\ call.offset >= 1
    /\ call.result.kind = "Some"
    /\ call.result.next = call.offset + 10

\* bit j (0 the lowest) of byte b
ByteBit(b, j) == (b \div 2^j) % 2

\* C26: when decode_varint returns (value, next_offset), value is the exact
\* sum of (byte_i & 0x7F) * 128^i over the consumed bytes, first byte least
\* significant: every payload bit of every consumed byte is in the value, so
\* a ten-byte varint whose last byte exceeds 1 is not accepted with its high
\* payload bits dropped.
C26_VarintExactValue ==
    (IsDecode /\ call.result.kind = "Some") =>
        LET n == call.result.next - call.offset
        IN  /\ \A k \in 0..(n - 1) : \A j \in 0..6 :
                  LET bit == ByteBit(buffer[call.offset + k + 1], j)
                  IN  IF 7 * k + j < U64Bits
                      THEN call.result.val[7 * k + j + 1] = bit
                      ELSE bit = 0
            /\ \A b \in (7 * n + 1)..U64Bits : call.result.val[b] = 0

IsSkip == call.op = "skip_field"

\* where the frame value that starts at offset ends, for wire types 1, 5
\* and 2 (-1 when the length varint cannot be read); saturating
RefSkipEnd(buf, wire_type, offset) ==
    CASE wire_type = 1 -> offset + 8
      [] wire_type = 5 -> offset + 4
      [] wire_type = 2 ->
            LET le == RefVarintEnd(buf, offset)
            IN  IF le < 0 THEN -1 ELSE le + RefVarintVal(buf, offset, le)

\* C23: skip_field reports a value that runs beyond the buffer where it
\* occurs: for wire types 1, 5 and 2 it returns an absent result whenever the
\* computed end (offset + 8, offset + 4, end of the length varint + L) exceeds
\* the buffer length, so every offset it returns is at most len(buffer).
C23_SkipWithinBuffer ==
    IsSkip =>
        /\ (/\ call.wire_type \in {1, 2, 5}
            /\ RefSkipEnd(buffer, call.wire_type, call.offset) > Len(buffer))
              => call.result = None
        /\ call.result.kind = "Some" => call.result.val <= Len(buffer)

----------------------------------------------------------------------------
(* Stream alignment of the three scan loops *)

\* the offsets where a frame of buf starts, and the end of buf
Boundaries(buf) ==
    { RefFrames(buf)[i].start : i \in DOMAIN RefFrames(buf) } \cup { Len(buf) }

\* the offsets at which the call made tested its while condition
CallHeads ==
    CASE IsExtract  -> extract_heads(call.in, U64Of(Target), 0, {})
      [] IsMultiple -> multiple_heads(call.in, U64Seq(call.tags), 0, {})
      [] IsReplace  -> replace_heads(call.in, U64Of(Target), 0, {})

\* C22: while one of the three scan loops runs over a well-formed message,
\* the offset at the head of every iteration is the first byte of a frame's
\* tag or the end of the buffer; and after a matched frame the offset is the
\* end of that frame's value, for length varints of one and of several bytes.
C22_StreamAlignment ==
    (IsCall /\ WellFormed(call.in)) =>
        /\ CallHeads \subseteq Boundaries(call.in)
        /\ (IsReplace /\ HasFrame(call.in, Target)) =>
              LET f == FirstFrame(call.in, Target)
              IN  replace_post_offset(call.in, f.start) = f.vend

----------------------------------------------------------------------------
(* Claims about every buffer: absent results *)

\* C24: whenever replace_field_with returns None the buffer is unchanged
\* byte for byte, on every buffer: also when the first frame that carries the
\* target number is itself corrupt.
C24_NoneKeepsBuffer ==
    (IsReplace /\ call.result = None) => buffer = call.in

\* C25: single-field and multi-field extraction agree on every buffer:
\* extract_field_by_tag(buffer, t) is Some(v) exactly when
\* extract_multiple_fields_by_tag(buffer, [t]) is not empty and starts with
\* (t, v), and it is None exactly when that list is empty.
C25_SingleAgreesWithMultiple ==
    IsExtract =>
        LET many == extract_multiple_fields_by_tag(call.in, <<U64Of(Target)>>)
            first == IF many.kind = "Ret" /\ many.val # <<>>
                     THEN Some(many.val[1]) ELSE None
        IN  /\ IsSome(call.result) =>
                  first = Some(<<U64Of(Target), call.result.val>>)
            /\ IsSome(first) => IsSome(call.result)
            /\ (call.result = None) <=> (many = Ret(<<>>))

----------------------------------------------------------------------------
(* Algebra of replacement *)

\* the frames among the replacement bytes for t
ReplacementFrames(t) == { r \in Replacements(t) : IsOneFrame(r, t) }

\* C27: replacements on different field numbers commute: on a well-formed
\* message that holds frames numbered t1 and t2, replacing t1 by a frame F1
\* and then t2 by a frame F2 leaves the same buffer and returns the same two
\* old values as the two calls made in the opposite order.
C27_ReplacementsCommute ==
    (/\ IsReplace /\ WellFormed(call.in) /\ HasFrame(call.in, Target)
     /\ IsOneFrame(call.repl, Target)) =>
        \A t2 \in Targets \ {Target} :
            HasFrame(call.in, t2) =>
                \A F2 \in ReplacementFrames(t2) :
                    LET then2  == replace_field_with(buffer, U64Of(t2), F2)
                        first2 == replace_field_with(call.in, U64Of(t2), F2)
                        then1  == replace_field_with(first2.buf, U64Of(Target), call.repl)
                    IN  /\ then2.buf = then1.buf
                        /\ then2.ret = first2.ret
                        /\ call.result = then1.ret

\* C29: replacement by a well-formed frame is idempotent: on a well-formed
\* message that holds a frame numbered t, replace_field_with(buffer, t, F)
\* applied a second time with the same frame F numbered t leaves the buffer
\* as the first call left it and returns the value bytes of F, for every wire
\* type and value length of F.
C29_ReplaceIdempotent ==
    (/\ IsReplace /\ WellFormed(call.in) /\ HasFrame(call.in, Target)
     /\ IsOneFrame(call.repl, Target)) =>
        LET again == replace_field_with(buffer, U64Of(Target), call.repl)
        IN  /\ again.buf = buffer
            /\ again.ret = Some(RefValue(call.repl, RefFrames(call.repl)[1]))

----------------------------------------------------------------------------
(* What a call depends on: the bytes up to the end of the first frame
   numbered t *)

\* tails put after that frame: none, a cut-off tag, a length of 2^64 - 1
Tails == { <<>>, <<136>>, Tag(300, 2) \o encode_varint(U64Max) }

\* the call's buffer holds a well-formed frame numbered t after well-formed
\* frames with other numbers
FoundFirst == (IsExtract \/ IsReplace) /\ RefScan(call.in, Target, 0) = "found"

\* the bytes up to the end of the first frame numbered t, and the rest
UpToFirst == Slice(call.in, 0, FirstFrame(call.in, Target).vend)

AfterFirst == Slice(call.in, FirstFrame(call.in, Target).vend, Len(call.in))

\* C28: the result of extract_field_by_tag(buffer, t) depends only on the
\* bytes up to the end of the first frame numbered t: with any other tail,
\* corrupt or cut off, the result is the same; replace_field_with returns
\* the same old value and the buffers it leaves differ by their tails only,
\* each tail copied through unchanged.
C28_DependsOnPrefixOnly ==
    FoundFirst =>
        \A tail \in Tails :
            /\ IsExtract =>
                  extract_field_by_tag(UpToFirst \o tail, U64Of(Target)) = call.result
            /\ IsReplace =>
                  LET other == replace_field_with(UpToFirst \o tail, U64Of(Target),
                                                  call.repl)
                      head  == Len(buffer) - Len(AfterFirst)
                  IN  /\ other.ret = call.result
                      /\ head >= 0
                      /\ Slice(buffer, head, Len(buffer)) = AfterFirst
                      /\ other.buf = Slice(buffer, 0, head) \o tail

\* a replacement in front of a corrupt tail
C28_Witness ==
    /\ FoundFirst /\ IsReplace
    /\ HasCorrupt(call.in)
    /\ AfterFirst # <<>>
    /\ IsSome(call.result)
    /\ call.repl # <<>>
    /\ buffer # call.in

====
